---- MODULE Spec2Model ----
(***************************************************************************)
(* Model of the comparison engine of proto-breaking-change-detector:       *)
(* FieldComparator (src/src/comparator/field_comparator.py) and            *)
(* EnumValueComparator (src/src/comparator/enum_value_comparator.py).      *)
(*                                                                         *)
(* A Python str is a sequence of one-character strings, so that            *)
(* str.replace is computed and not assumed.  An optional value (None or an *)
(* object) is a sequence of length 0 or 1.  A finding's message is the     *)
(* sequence of the f-string's parts: literal text (a TLA+ string) and      *)
(* interpolated values (Python strs) alternate; the backquote of the       *)
(* messages is written ' since a TLA+ string cannot hold a backquote.      *)
(***************************************************************************)
EXTENDS Integers, Sequences, FiniteSets, TLC

VARIABLES
    field_original,     \* self.field_original of the comparator (optional)
    field_update,       \* self.field_update of the comparator (optional)
    finding_container,  \* the accumulator: the ordered list of findings
    prior,              \* the accumulator's content when the comparator was built
    raised,             \* exception the last compare() propagated, or "none"
    enum_value_original, \* self.enum_value_original of the comparator (optional)
    enum_value_update,  \* self.enum_value_update of the comparator (optional)
    pc,                 \* "idle" | "ready" (constructed) | "done" (compare returned)
    kind,               \* "none" | "field" | "enum": which comparator is constructed
    calls               \* number of comparators constructed so far

vars == <<field_original, field_update, enum_value_original, enum_value_update,
          finding_container, prior, raised, pc, kind, calls>>

----------------------------------------------------------------------------
(* Optional values and Python strings *)

None == <<>>

Some(x) == <<x>>

Get(o) == o[1]

\* Python truthiness of an optional str: None and "" are falsy.
TruthyStr(o) == o # None /\ Get(o) # <<>>

\* s[i..] of a Python str
Drop(s, n) == SubSeq(s, n + 1, Len(s))

StartsWith(s, p) == Len(p) <= Len(s) /\ SubSeq(s, 1, Len(p)) = p

\* str.replace(old, new): every non-overlapping occurrence, leftmost first.
\* With old = "" Python inserts new before every character and at the end.
RECURSIVE Replace(_, _, _)
Replace(s, old, new) ==
    IF old = <<>>
    THEN IF s = <<>> THEN new ELSE new \o <<Head(s)>> \o Replace(Tail(s), old, new)
    ELSE IF Len(s) < Len(old) THEN s
    ELSE IF StartsWith(s, old) THEN new \o Replace(Drop(s, Len(old)), old, new)
    ELSE <<Head(s)>> \o Replace(Tail(s), old, new)

----------------------------------------------------------------------------
(* Finding accumulator *)

\* FindingContainer.addFinding: append one finding at the end.
addFinding(fc, category, proto_file_name, source_code_line, message, change_type) ==
    Append(fc, [category |-> category,
                proto_file_name |-> proto_file_name,
                source_code_line |-> source_code_line,
                message |-> message,
                change_type |-> change_type])

\* What a step of compare() hands on: the accumulator and the exception raised.
Result(fc, exc) == [findings |-> fc, raised |-> exc]

----------------------------------------------------------------------------
(* Resource database *)

\* The query methods a ResourceDatabase offers.
ResourceDatabaseMethods == {"get_resource_by_type", "get_parent_resources_by_child_type"}

\* A database is [resources: set of registered types, parents: set of <<child, parent>>].
get_resource_by_type(db, type) ==
    {[value |-> [type |-> t]] : t \in {x \in db.resources : x = type}}

get_parent_resources_by_child_type(db, child_type) ==
    {[value |-> [type |-> p[2]]] : p \in {q \in db.parents : q[1] = child_type}}

\* Field.child_type: whether the field's resource reference uses child_type.
child_type(f) ==
    f.resource_reference # None /\ Get(f.resource_reference).value.child_type # <<>>

----------------------------------------------------------------------------
(* FieldComparator *)

\* compare(), step 1: the original field is None.
FieldAddition(u, fc) ==
    addFinding(fc, "FIELD_ADDITION", u.proto_file_name, u.source_code_line,
               <<"A new field '", u.name, "' is added.">>, "MINOR")

\* Variant of FieldRemoval: a removal reported like an addition, as MINOR.
FieldRemovalMinor(o, fc) ==
    addFinding(fc, "FIELD_REMOVAL", o.proto_file_name, o.source_code_line,
               <<"An existing field '", o.name, "' is removed.">>, "MINOR")

\* compare(), step 2: the updated field is None.
FieldRemoval(o, fc) ==
    addFinding(fc, "FIELD_REMOVAL", o.proto_file_name, o.source_code_line,
               <<"An existing field '", o.name, "' is removed.">>, "MAJOR")

\* FieldNameChange that starts the accumulator afresh instead of appending to it.
FieldNameChangeOverwrites(o, u, fc) ==
    addFinding(<<>>, "FIELD_NAME_CHANGE", u.proto_file_name, u.source_code_line,
               <<"Name of an existing field is changed from '", o.name,
                 "' to '", u.name, "'.">>, "MAJOR")

\* compare(), step 3: both present, the names differ.
FieldNameChange(o, u, fc) ==
    addFinding(fc, "FIELD_NAME_CHANGE", u.proto_file_name, u.source_code_line,
               <<"Name of an existing field is changed from '", o.name,
                 "' to '", u.name, "'.">>, "MAJOR")

\* compare(), step 4: the repeated state.
RepeatedCheck(o, u, fc) ==
    IF o.repeated.value # u.repeated.value
    THEN addFinding(fc, "FIELD_REPEATED_CHANGE", u.proto_file_name,
                    u.repeated.source_code_line,
                    <<"Repeated state of an existing field '", o.name,
                      "' is changed.">>, "MAJOR")
    ELSE fc

\* compare(): optional -> required is breaking.
RequiredCheck(o, u, fc) ==
    IF ~o.required.value /\ u.required.value
    THEN addFinding(fc, "FIELD_BEHAVIOR_CHANGE", u.proto_file_name,
                    u.required.source_code_line,
                    <<"Field behavior of an existing field '", o.name,
                      "' is changed.">>, "MAJOR")
    ELSE fc

\* _transformed_type_name: [value |-> optional str, raised |-> exception].
\* str.replace raises TypeError when its second argument is None.
transformed_type_name(o, u, type_name) ==
    IF TruthyStr(o.api_version)
    THEN IF u.api_version = None
         THEN [value |-> None, raised |-> "TypeError"]
         ELSE [value |-> Some(Replace(type_name, Get(o.api_version), Get(u.api_version))),
               raised |-> "none"]
    ELSE [value |-> None, raised |-> "none"]

\* compare(), step 5, second branch: same proto_type, the type names differ.
TypeNameCheck(o, u, fc) ==
    LET t == transformed_type_name(o, u, Get(o.type_name).value) IN
    IF t.raised # "none" THEN Result(fc, t.raised)
    ELSE IF ~TruthyStr(t.value) \/ Get(t.value) # Get(u.type_name).value
    THEN Result(addFinding(fc, "FIELD_TYPE_CHANGE", u.proto_file_name,
                           Get(u.type_name).source_code_line,
                           <<"Type of an existing field '", o.name,
                             "' is changed from '", Get(o.type_name).value,
                             "' to '", Get(u.type_name).value, "'.">>, "MAJOR"),
                "none")
    ELSE Result(fc, "none")

\* key_original == key_update or self._transformed_type_name(key_original) == key_update
IdenticalEntryType(o, u, entry_original, entry_update) ==
    IF entry_original = entry_update THEN [value |-> TRUE, raised |-> "none"]
    ELSE LET t == transformed_type_name(o, u, entry_original) IN
         [value |-> t.raised = "none" /\ t.value = Some(entry_update),
          raised |-> t.raised]

\* compare(), step 5, third branch: same type name, map types.
MapCheck(o, u, fc) ==
    IF o.is_map_type /\ ~u.is_map_type
    THEN Result(addFinding(fc, "FIELD_TYPE_CHANGE", u.proto_file_name,
                           Get(u.type_name).source_code_line,
                           <<"Type of an existing field '", o.name,
                             "' is changed from a map to '", Get(u.type_name).value,
                             "'.">>, "MAJOR"), "none")
    ELSE IF ~o.is_map_type /\ u.is_map_type
    THEN Result(addFinding(fc, "FIELD_TYPE_CHANGE", u.proto_file_name,
                           Get(u.type_name).source_code_line,
                           <<"Type of an existing field '", o.name,
                             "' is changed from '", Get(o.type_name).value,
                             "' to a map.">>, "MAJOR"), "none")
    ELSE IF o.is_map_type /\ u.is_map_type
    THEN LET key_original == Get(o.map_entry_type).key
             value_original == Get(o.map_entry_type).value
             key_update == Get(u.map_entry_type).key
             value_update == Get(u.map_entry_type).value
             identical_key_type == IdenticalEntryType(o, u, key_original, key_update)
             identical_value_type == IdenticalEntryType(o, u, value_original, value_update)
         IN  IF identical_key_type.raised # "none"
             THEN Result(fc, identical_key_type.raised)
             ELSE IF identical_value_type.raised # "none"
             THEN Result(fc, identical_value_type.raised)
             ELSE IF ~(identical_key_type.value /\ identical_value_type.value)
             THEN Result(addFinding(fc, "FIELD_TYPE_CHANGE", u.proto_file_name,
                                    Get(u.type_name).source_code_line,
                                    <<"Type of an existing field '", o.name,
                                      "' is changed from 'map<", key_original, ", ",
                                      value_original, ">' to 'map<", key_update, ", ",
                                      value_update, ">'.">>, "MAJOR"), "none")
             ELSE Result(fc, "none")
    ELSE Result(fc, "none")

\* TypeCheck with the type-name and map branches as a separate if: they are evaluated
\* when the proto_type differs as well.
TypeCheckSeparateIf(o, u, fc) ==
    LET first == IF o.proto_type.value # u.proto_type.value
                 THEN addFinding(fc, "FIELD_TYPE_CHANGE", u.proto_file_name,
                                 u.proto_type.source_code_line,
                                 <<"Type of an existing field '", o.name,
                                   "' is changed from '", o.proto_type.value,
                                   "' to '", u.proto_type.value, "'.">>, "MAJOR")
                 ELSE fc
    IN  IF o.type_name = None THEN Result(first, "none")
        ELSE IF u.type_name = None THEN Result(first, "AttributeError")
        ELSE IF Get(o.type_name).value # Get(u.type_name).value
        THEN TypeNameCheck(o, u, first)
        ELSE MapCheck(o, u, first)

\* compare(), step 5: the if / elif / elif chain on the type of the field.
\* Reading .value of an absent (None) updated type_name raises AttributeError.
TypeCheck(o, u, fc) ==
    IF o.proto_type.value # u.proto_type.value
    THEN Result(addFinding(fc, "FIELD_TYPE_CHANGE", u.proto_file_name,
                           u.proto_type.source_code_line,
                           <<"Type of an existing field '", o.name,
                             "' is changed from '", o.proto_type.value,
                             "' to '", u.proto_type.value, "'.">>, "MAJOR"), "none")
    ELSE IF o.type_name = None THEN Result(fc, "none")
    ELSE IF u.type_name = None THEN Result(fc, "AttributeError")
    ELSE IF Get(o.type_name).value # Get(u.type_name).value THEN TypeNameCheck(o, u, fc)
    ELSE MapCheck(o, u, fc)

\* compare(), steps 6 and 7: oneof membership, else the proto3 optional state.
OneofCheck(o, u, fc) ==
    IF o.oneof # u.oneof
    THEN IF o.oneof
         THEN addFinding(fc, "FIELD_ONEOF_REMOVAL", u.proto_file_name, u.source_code_line,
                         <<"An existing field '", o.name, "' is moved out of One-of.">>,
                         "MAJOR")
         ELSE addFinding(fc, "FIELD_ONEOF_ADDITION", u.proto_file_name, u.source_code_line,
                         <<"An existing field '", o.name, "' is moved into One-of.">>,
                         "MAJOR")
    ELSE IF o.oneof /\ o.proto3_optional # u.proto3_optional
    THEN LET fc1 == IF o.proto3_optional
                    THEN addFinding(fc, "FIELD_PROTO3_OPTIONAL_CHANGE", u.proto_file_name,
                                    u.source_code_line,
                                    <<"Proto3 optional state of an existing field '",
                                      o.name, "' is changed to required.">>, "MAJOR")
                    ELSE fc
         IN  IF u.proto3_optional
             THEN addFinding(fc1, "FIELD_PROTO3_OPTIONAL_CHANGE", u.proto_file_name,
                             u.source_code_line,
                             <<"An existing field '", o.name,
                               "' is changed to proto3 optional.">>, "MINOR")
             ELSE fc1
    ELSE fc

----------------------------------------------------------------------------
(* Resource-reference resolver *)

\* _resource_in_database: [value |-> bool, raised |-> exception].
\* Calling a method the database does not offer raises AttributeError.
resource_in_database(u, resource_ref) ==
    LET rb_update == u.resource_database IN
    IF rb_update = None THEN [value |-> FALSE, raised |-> "none"]
    ELSE IF child_type(u)
    THEN IF "get_parent_resource_by_child_type" \in ResourceDatabaseMethods
         THEN [value |-> get_parent_resources_by_child_type(
                             Get(rb_update), resource_ref.value.child_type) # {},
               raised |-> "none"]
         ELSE [value |-> FALSE, raised |-> "AttributeError"]
    ELSE [value |-> get_resource_by_type(Get(rb_update), resource_ref.value.type) # {},
          raised |-> "none"]

\* _resource_ref_in_local: [value |-> bool, raised |-> exception].
\* resource_ref is the reference's value; a None database has no query method.
resource_ref_in_local(o, u, resource_ref) ==
    LET mr_update == u.message_resource
        checked_type == IF resource_ref.type # <<>> THEN resource_ref.type
                        ELSE resource_ref.child_type
    IN  IF mr_update = None THEN [value |-> FALSE, raised |-> "none"]
        ELSE IF checked_type = <<>> THEN [value |-> FALSE, raised |-> "TypeError"]
        ELSE IF child_type(o)
        THEN IF u.resource_database = None
             THEN [value |-> FALSE, raised |-> "AttributeError"]
             ELSE LET parent_resources == get_parent_resources_by_child_type(
                          Get(u.resource_database), resource_ref.child_type)
                  IN  [value |-> \E resource \in parent_resources :
                                     Get(mr_update).value.type = resource.value.type,
                       raised |-> "none"]
        ELSE [value |-> Get(mr_update).value.type = resource_ref.type, raised |-> "none"]

\* _is_parent_type: the Result of the flip check in one direction.
is_parent_type(o, u, child, parent_type, original_is_child, source_code_line, fc) ==
    LET rb == IF original_is_child THEN o.resource_database ELSE u.resource_database IN
    IF rb = None THEN Result(fc, "AttributeError")
    ELSE LET parent_resources == get_parent_resources_by_child_type(Get(rb), child) IN
         IF ~\E parent \in parent_resources : parent.value.type = parent_type
         THEN Result(addFinding(fc, "RESOURCE_REFERENCE_CHANGE", u.proto_file_name,
                                source_code_line,
                                <<"The child_type '", child, "' and type '", parent_type,
                                  "' of resource reference option in field '", o.name,
                                  "' cannot be resolved to the identical resource.">>,
                                "MAJOR"), "none")
         ELSE Result(fc, "none")

\* _compare_resource_reference, a reference is added.
ReferenceAdded(o, u, fc) ==
    LET resource_ref_update == Get(u.resource_reference)
        in_database == resource_in_database(u, resource_ref_update)
    IN  IF in_database.raised # "none" THEN Result(fc, in_database.raised)
        ELSE IF ~in_database.value
        THEN Result(addFinding(fc, "RESOURCE_REFERENCE_ADDITION", u.proto_file_name,
                               resource_ref_update.source_code_line,
                               <<"A resource reference option is added to the field '",
                                 o.name, "', but it is not defined anywhere">>,
                               "MAJOR"), "none")
        ELSE Result(addFinding(fc, "RESOURCE_REFERENCE_ADDITION", u.proto_file_name,
                               resource_ref_update.source_code_line,
                               <<"A resource reference option is added to the field '",
                                 o.name, "'.">>, "MINOR"), "none")

\* ReferenceRemoved with the finding located in the updated field's file.
ReferenceRemovedInUpdateFile(o, u, fc) ==
    LET resource_ref_original == Get(o.resource_reference)
        in_local == resource_ref_in_local(o, u, resource_ref_original.value)
    IN  IF in_local.raised # "none" THEN Result(fc, in_local.raised)
        ELSE IF ~in_local.value
        THEN Result(addFinding(fc, "RESOURCE_REFERENCE_REMOVAL", u.proto_file_name,
                               resource_ref_original.source_code_line,
                               <<"A resource reference option of the field '", o.name,
                                 "' is removed.">>, "MAJOR"), "none")
        ELSE Result(addFinding(fc, "RESOURCE_REFERENCE_REMOVAL", u.proto_file_name,
                               resource_ref_original.source_code_line,
                               <<"A resource reference option of the field '", o.name,
                                 "' is removed, but added back to the message options.">>,
                               "MINOR"), "none")

\* _compare_resource_reference, the reference is removed.
ReferenceRemoved(o, u, fc) ==
    LET resource_ref_original == Get(o.resource_reference)
        in_local == resource_ref_in_local(o, u, resource_ref_original.value)
    IN  IF in_local.raised # "none" THEN Result(fc, in_local.raised)
        ELSE IF ~in_local.value
        THEN Result(addFinding(fc, "RESOURCE_REFERENCE_REMOVAL", o.proto_file_name,
                               resource_ref_original.source_code_line,
                               <<"A resource reference option of the field '", o.name,
                                 "' is removed.">>, "MAJOR"), "none")
        ELSE Result(addFinding(fc, "RESOURCE_REFERENCE_REMOVAL", o.proto_file_name,
                               resource_ref_original.source_code_line,
                               <<"A resource reference option of the field '", o.name,
                                 "' is removed, but added back to the message options.">>,
                               "MINOR"), "none")

\* _compare_resource_reference, both present, both type or both child_type.
ReferenceSameKind(o, u, fc) ==
    LET ro == Get(o.resource_reference).value
        ru == Get(u.resource_reference).value
        original_type == IF ro.type # <<>> THEN ro.type ELSE ro.child_type
        update_type == IF ru.type # <<>> THEN ru.type ELSE ru.child_type
    IN  IF original_type # update_type
        THEN Result(addFinding(fc, "RESOURCE_REFERENCE_CHANGE", u.proto_file_name,
                               Get(u.resource_reference).source_code_line,
                               <<"The type of resource reference option of the field '",
                                 o.name, "' is changed from '", original_type, "' to '",
                                 update_type, "'.">>, "MAJOR"), "none")
        ELSE Result(fc, "none")

\* _compare_resource_reference, both present, type <-> child_type.
ReferenceFlipped(o, u, fc) ==
    LET ro == Get(o.resource_reference)
        ru == Get(u.resource_reference)
        first == IF child_type(o)
                 THEN is_parent_type(o, u, ro.value.child_type, ru.value.type, TRUE,
                                     ru.source_code_line, fc)
                 ELSE Result(fc, "none")
    IN  IF first.raised # "none" THEN first
        ELSE IF child_type(u)
        THEN is_parent_type(o, u, ru.value.child_type, ro.value.type, FALSE,
                            ru.source_code_line, first.findings)
        ELSE first

\* _compare_resource_reference
compare_resource_reference(o, u, fc) ==
    IF o.resource_reference = None /\ u.resource_reference = None THEN Result(fc, "none")
    ELSE IF o.resource_reference = None THEN ReferenceAdded(o, u, fc)
    ELSE IF u.resource_reference = None THEN ReferenceRemoved(o, u, fc)
    ELSE IF child_type(o) = child_type(u) THEN ReferenceSameKind(o, u, fc)
    ELSE ReferenceFlipped(o, u, fc)

\* Variant of compare: step 3 lacks its return, the later checks run after it.
compareNameChangeFallsThrough(fo, fu, fc) ==
    IF fo = None THEN Result(FieldAddition(Get(fu), fc), "none")
    ELSE IF fu = None THEN Result(FieldRemoval(Get(fo), fc), "none")
    ELSE LET o == Get(fo)
             u == Get(fu)
             named == IF o.name # u.name THEN FieldNameChange(o, u, fc) ELSE fc
             typed == TypeCheck(o, u, RequiredCheck(o, u, RepeatedCheck(o, u, named)))
         IN  IF typed.raised # "none" THEN typed
             ELSE compare_resource_reference(o, u, OneofCheck(o, u, typed.findings))

\* Variant of compare: the type check is an elif of the repeated check.
compareTypeCheckElif(fo, fu, fc) ==
    IF fo = None THEN Result(FieldAddition(Get(fu), fc), "none")
    ELSE IF fu = None THEN Result(FieldRemoval(Get(fo), fc), "none")
    ELSE LET o == Get(fo)
             u == Get(fu)
         IN  IF o.name # u.name THEN Result(FieldNameChange(o, u, fc), "none")
             ELSE LET checked == RequiredCheck(o, u, RepeatedCheck(o, u, fc))
                      typed == IF o.repeated.value # u.repeated.value
                               THEN Result(checked, "none")
                               ELSE TypeCheck(o, u, checked)
                  IN  IF typed.raised # "none" THEN typed
                      ELSE compare_resource_reference(o, u, OneofCheck(o, u, typed.findings))

\* FieldComparator.compare: the Result of one call on accumulator fc.
compare(fo, fu, fc) ==
    IF fo = None THEN Result(FieldAddition(Get(fu), fc), "none")
    ELSE IF fu = None THEN Result(FieldRemoval(Get(fo), fc), "none")
    ELSE LET o == Get(fo)
             u == Get(fu)
         IN  IF o.name # u.name THEN Result(FieldNameChange(o, u, fc), "none")
             ELSE LET typed == TypeCheck(o, u, RequiredCheck(o, u, RepeatedCheck(o, u, fc)))
                  IN  IF typed.raised # "none" THEN typed
                      ELSE compare_resource_reference(o, u, OneofCheck(o, u, typed.findings))

----------------------------------------------------------------------------
(* EnumValueComparator *)

\* enum_value_compare with the name-change finding located at the original value.
enum_value_compareAtOriginal(eo, eu, fc) ==
    IF eo = None
    THEN Result(addFinding(fc, "ENUM_VALUE_ADDITION", Get(eu).proto_file_name,
                           Get(eu).source_code_line,
                           <<"A new EnumValue '", Get(eu).name, "' is added.">>, "MINOR"),
                "none")
    ELSE IF eu = None
    THEN Result(addFinding(fc, "ENUM_VALUE_REMOVAL", Get(eo).proto_file_name,
                           Get(eo).source_code_line,
                           <<"An existing EnumValue '", Get(eo).name, "' is removed.">>,
                           "MAJOR"), "none")
    ELSE IF Get(eo).name # Get(eu).name
    THEN Result(addFinding(fc, "ENUM_VALUE_NAME_CHANGE", Get(eo).proto_file_name,
                           Get(eo).source_code_line,
                           <<"Name of the EnumValue is changed from '", Get(eo).name,
                             "' to '", Get(eu).name, "'.">>, "MAJOR"), "none")
    ELSE Result(fc, "none")

\* EnumValueComparator.compare: the Result of one call on accumulator fc.
enum_value_compare(eo, eu, fc) ==
    IF eo = None
    THEN Result(addFinding(fc, "ENUM_VALUE_ADDITION", Get(eu).proto_file_name,
                           Get(eu).source_code_line,
                           <<"A new EnumValue '", Get(eu).name, "' is added.">>, "MINOR"),
                "none")
    ELSE IF eu = None
    THEN Result(addFinding(fc, "ENUM_VALUE_REMOVAL", Get(eo).proto_file_name,
                           Get(eo).source_code_line,
                           <<"An existing EnumValue '", Get(eo).name, "' is removed.">>,
                           "MAJOR"), "none")
    ELSE IF Get(eo).name # Get(eu).name
    THEN Result(addFinding(fc, "ENUM_VALUE_NAME_CHANGE", Get(eu).proto_file_name,
                           Get(eu).source_code_line,
                           <<"Name of the EnumValue is changed from '", Get(eo).name,
                             "' to '", Get(eu).name, "'.">>, "MAJOR"), "none")
    ELSE Result(fc, "none")

----------------------------------------------------------------------------
(* The inputs the comparators are run on *)

\* How many comparators one accumulator is handed to.
MaxCalls == 2

Foo == <<"F", "o", "o">>
Bar == <<"B", "a", "r">>
TYPE_INT32 == <<"T", "Y", "P", "E", "_", "I", "N", "T", "3", "2">>
TYPE_STRING == <<"T", "Y", "P", "E", "_", "S", "T", "R", "I", "N", "G">>
TYPE_ENUM == <<"T", "Y", "P", "E", "_", "E", "N", "U", "M">>
TYPE_MESSAGE == <<"T", "Y", "P", "E", "_", "M", "E", "S", "S", "A", "G", "E">>

\* api versions: v1, v1b (a beta of v1), v2
V1 == <<"v", "1">>
V1b == <<"v", "1", "b">>
V2 == <<"v", "2">>

\* The type name  .<package>.<version>.<type>
TypeName(package, version, type) == <<".">> \o package \o <<".">> \o version \o <<".">> \o type

ApiVersions == {None, Some(V1), Some(V1b), Some(V2)}

\* Enum type names: the version segment, the type's own name and the package vary.
EnumTypeNames ==
    {TypeName(<<"p">>, v, <<"E">>) : v \in {V1, V1b, V2}}
    \cup {TypeName(<<"p">>, V2, <<"U">>),
          TypeName(<<"p">>, V1, <<"E", "v", "1">>),
          TypeName(<<"p">>, V2, <<"E", "v", "2">>),
          TypeName(<<"p">>, V2, <<"E", "v", "1">>),
          TypeName(<<"p", "v", "1">>, V1, <<"E">>),
          TypeName(<<"p", "v", "2">>, V2, <<"E">>)}

\* Type names of messages (a map field's type is its entry message).
MessageTypeNames == {TypeName(<<"p">>, v, <<"M">>) : v \in {V1, V1b}}

MapKeyTypes == {<<"s", "t", "r", "i", "n", "g">>, <<"i", "n", "t", "3", "2">>}

MapValueTypes ==
    {<<"i", "n", "t", "3", "2">>, <<"i", "n", "t", "6", "4">>,
     TypeName(<<"p">>, V1, <<"E">>), TypeName(<<"p">>, V1b, <<"E">>)}

\* Resource types
Topic == <<"T">>
Shelf == <<"S">>
Child == <<"C">>
Deep == <<"D">>

\* A field with every attribute at its default, declared in `file`.  The label and
\* the type stand on the field's own line, its options on the next one.
MakeField(name, file, line) ==
    [name |-> name, proto_file_name |-> file, source_code_line |-> line,
     repeated |-> [value |-> FALSE, source_code_line |-> line],
     required |-> [value |-> FALSE, source_code_line |-> line + 1],
     proto_type |-> [value |-> TYPE_INT32, source_code_line |-> line],
     type_name |-> None, is_map_type |-> FALSE, map_entry_type |-> None,
     oneof |-> FALSE, proto3_optional |-> FALSE,
     resource_reference |-> None, api_version |-> None,
     message_resource |-> None, resource_database |-> None]

\* The original tree's fields are declared in one file, the updated tree's in another.
OriginalField(name) == MakeField(name, "original.proto", 3)
UpdateField(name) == MakeField(name, "update.proto", 7)

WithFlags(f, repeated, required, oneof, proto3_optional, proto_type) ==
    [f EXCEPT !.repeated.value = repeated, !.required.value = required,
              !.oneof = oneof, !.proto3_optional = proto3_optional,
              !.proto_type.value = proto_type]

WithType(f, proto_type, type_name, api_version) ==
    [f EXCEPT !.proto_type.value = proto_type,
              !.type_name = Some([value |-> type_name,
                                  source_code_line |-> f.source_code_line]),
              !.api_version = api_version]

WithMap(f, type_name, api_version, key, value) ==
    [WithType(f, TYPE_MESSAGE, type_name, api_version)
        EXCEPT !.is_map_type = TRUE, !.map_entry_type = Some([key |-> key, value |-> value])]

WithReference(f, reference, message_resource, resource_database) ==
    [f EXCEPT !.resource_reference = reference,
              !.message_resource = message_resource,
              !.resource_database = resource_database]

Reference(f, type, child) ==
    Some([value |-> [type |-> type, child_type |-> child],
          source_code_line |-> f.source_code_line + 1])

\* Scalar fields: the name and every flag vary.
FlagFields(base(_)) ==
    {WithFlags(base(n), rp, rq, oo, p3, pt) :
        n \in {Foo, Bar}, rp \in BOOLEAN, rq \in BOOLEAN, oo \in BOOLEAN,
        p3 \in BOOLEAN, pt \in {TYPE_INT32, TYPE_STRING}}

\* Enum- and message-typed fields and map fields: type name and api version vary.
TypedFields(base(_)) ==
    {WithType(base(Foo), TYPE_ENUM, t, v) : t \in EnumTypeNames, v \in ApiVersions}
    \cup {WithType(base(Foo), TYPE_MESSAGE, t, v) :
            t \in MessageTypeNames, v \in {None, Some(V1), Some(V1b)}}
    \cup {WithMap(base(Foo), t, v, k, w) :
            t \in MessageTypeNames, v \in {None, Some(V1), Some(V1b)},
            k \in MapKeyTypes, w \in MapValueTypes}
    \cup {base(Foo), WithFlags(base(Foo), FALSE, FALSE, FALSE, FALSE, TYPE_STRING)}

ResourceDatabases ==
    {None,
     Some([resources |-> {}, parents |-> {}]),
     Some([resources |-> {Topic, Child}, parents |-> {<<Child, Topic>>}]),
     Some([resources |-> {Topic, Shelf, Child, Deep},
           parents |-> {<<Child, Shelf>>, <<Deep, Topic>>, <<Deep, Shelf>>}])}

MessageResources == {None, Some([value |-> [type |-> Topic]]), Some([value |-> [type |-> Shelf]])}

\* Fields with a resource reference: well-formed (type or child_type) and malformed.
ReferenceFields(base(_)) ==
    {WithReference(base(Foo), r, m, d) :
        r \in {None, Reference(base(Foo), Topic, <<>>), Reference(base(Foo), Shelf, <<>>),
               Reference(base(Foo), <<>>, Child), Reference(base(Foo), <<>>, Deep),
               Reference(base(Foo), <<>>, <<>>)},
        m \in MessageResources, d \in ResourceDatabases}

\* Every pair with at least one side present.
Pairs(originals, updates) ==
    {<<Some(o), Some(u)>> : o \in originals, u \in updates}
    \cup {<<Some(o), None>> : o \in originals}
    \cup {<<None, Some(u)>> : u \in updates}

\* A few typed and referencing fields, to go with the scalar ones.
MixedSamples(base(_)) ==
    {WithType(base(Bar), TYPE_ENUM, TypeName(<<"p">>, V1, <<"E">>), Some(V1)),
     WithMap(base(Foo), TypeName(<<"p">>, V1, <<"M">>), Some(V1),
             <<"s", "t", "r", "i", "n", "g">>, <<"i", "n", "t", "3", "2">>),
     WithReference(base(Foo), Reference(base(Foo), Topic, <<>>), None, None),
     WithReference(base(Bar), Reference(base(Bar), <<>>, Child), None, None),
     WithReference(base(Foo), Reference(base(Foo), Shelf, <<>>), None, None),
     WithReference(base(Foo), Reference(base(Foo), <<>>, Child),
                   Some([value |-> [type |-> Topic]]),
                   Some([resources |-> {Topic, Child}, parents |-> {<<Child, Topic>>}]))}

FlagPairs ==
    Pairs(FlagFields(OriginalField) \cup MixedSamples(OriginalField),
          FlagFields(UpdateField) \cup MixedSamples(UpdateField))

TypedPairs == Pairs(TypedFields(OriginalField), TypedFields(UpdateField))

ReferencePairs == Pairs(ReferenceFields(OriginalField), ReferenceFields(UpdateField))

\* The pairs of the runs that hand one accumulator to several comparators.
SmallFields(base(_)) ==
    {WithFlags(base(n), rp, FALSE, FALSE, FALSE, pt) :
        n \in {Foo, Bar}, rp \in BOOLEAN, pt \in {TYPE_INT32, TYPE_STRING}}

\* A field on which compare() raises after the flag and type checks have run: its
\* child_type reference is added and the database is asked for it.
RaisingFields(base(_)) ==
    {WithReference(base(Foo), Reference(base(Foo), <<>>, Child), None,
                   Some([resources |-> {Topic, Child}, parents |-> {<<Child, Topic>>}]))}

SmallPairs ==
    Pairs(SmallFields(OriginalField), SmallFields(UpdateField) \cup RaisingFields(UpdateField))

\* Enum-typed fields whose oneof membership and type reference vary as well.
MixedFields(base(_)) ==
    {WithReference([WithType(base(Foo), TYPE_ENUM, TypeName(<<"p">>, tv[1], <<"E">>), tv[2])
                       EXCEPT !.oneof = oo], r, None, None) :
        tv \in {<<V1, Some(V1)>>, <<V2, Some(V2)>>, <<V2, None>>}, oo \in BOOLEAN,
        r \in {None, Reference(base(Foo), Topic, <<>>), Reference(base(Foo), Shelf, <<>>)}}

MixedPairs == Pairs(MixedFields(OriginalField), MixedFields(UpdateField))

EnumValue(name, file, line) ==
    [name |-> name, proto_file_name |-> file, source_code_line |-> line]

EnumValuePairs ==
    Pairs({EnumValue(n, "original.proto", 4) : n \in {Foo, Bar}},
          {EnumValue(n, "update.proto", 9) : n \in {Foo, Bar}})

----------------------------------------------------------------------------
(* The state machine *)

Init ==
    /\ field_original = None
    /\ field_update = None
    /\ enum_value_original = None
    /\ enum_value_update = None
    /\ finding_container = <<>>
    /\ prior = <<>>
    /\ raised = "none"
    /\ pc = "idle"
    /\ kind = "none"
    /\ calls = 0

\* FieldComparator.__init__ on the accumulator as it stands.
FieldComparatorInit(fo, fu) ==
    /\ pc \in {"idle", "done"}
    /\ field_original' = fo
    /\ field_update' = fu
    /\ prior' = finding_container
    /\ raised' = "none"
    /\ pc' = "ready"
    /\ kind' = "field"
    /\ calls' = calls + 1
    /\ UNCHANGED <<enum_value_original, enum_value_update, finding_container>>

\* EnumValueComparator.__init__ on the accumulator as it stands.
EnumValueComparatorInit(eo, eu) ==
    /\ pc \in {"idle", "done"}
    /\ enum_value_original' = eo
    /\ enum_value_update' = eu
    /\ prior' = finding_container
    /\ raised' = "none"
    /\ pc' = "ready"
    /\ kind' = "enum"
    /\ calls' = calls + 1
    /\ UNCHANGED <<field_original, field_update, finding_container>>

\* FieldComparator.compare()
FieldCompare ==
    /\ pc = "ready"
    /\ kind = "field"
    /\ LET r == compare(field_original, field_update, finding_container) IN
        /\ finding_container' = r.findings
        /\ raised' = r.raised
    /\ pc' = "done"
    /\ UNCHANGED <<field_original, field_update, enum_value_original, enum_value_update,
                   prior, kind, calls>>

\* EnumValueComparator.compare()
EnumValueCompare ==
    /\ pc = "ready"
    /\ kind = "enum"
    /\ LET r == enum_value_compare(enum_value_original, enum_value_update,
                                   finding_container) IN
        /\ finding_container' = r.findings
        /\ raised' = r.raised
    /\ pc' = "done"
    /\ UNCHANGED <<field_original, field_update, enum_value_original, enum_value_update,
                   prior, kind, calls>>

\* One accumulator handed to up to MaxCalls comparators in turn.
NewFieldComparator ==
    /\ calls < MaxCalls
    /\ \E p \in SmallPairs : FieldComparatorInit(p[1], p[2])

NewEnumValueComparator ==
    /\ calls < MaxCalls
    /\ \E p \in EnumValuePairs : EnumValueComparatorInit(p[1], p[2])

\* One comparator on a fresh accumulator, for each family of fields.
NewFlagComparator ==
    /\ pc = "idle"
    /\ \E p \in FlagPairs : FieldComparatorInit(p[1], p[2])

NewTypedComparator ==
    /\ pc = "idle"
    /\ \E p \in TypedPairs : FieldComparatorInit(p[1], p[2])

NewReferenceComparator ==
    /\ pc = "idle"
    /\ \E p \in ReferencePairs : FieldComparatorInit(p[1], p[2])

NewMixedComparator ==
    /\ pc = "idle"
    /\ \E p \in MixedPairs : FieldComparatorInit(p[1], p[2])

Next == NewFieldComparator \/ NewEnumValueComparator \/ FieldCompare \/ EnumValueCompare

Spec == Init /\ [][Next]_vars

NextFlags == NewFlagComparator \/ FieldCompare

SpecFlags == Init /\ [][NextFlags]_vars

NextTyped == NewTypedComparator \/ FieldCompare

SpecTyped == Init /\ [][NextTyped]_vars

NextReference == NewReferenceComparator \/ FieldCompare

SpecReference == Init /\ [][NextReference]_vars

NextMixed == NewMixedComparator \/ FieldCompare

SpecMixed == Init /\ [][NextMixed]_vars

\* What the last compare() appended to the accumulator.
Appended == SubSeq(finding_container, Len(prior) + 1, Len(finding_container))

----------------------------------------------------------------------------
(* Vocabulary of the properties *)

\* A field comparator has run compare() to its end (returned or raised).
FieldDone == pc = "done" /\ kind = "field"

BothPresent == field_original # None /\ field_update # None

\* Both fields present with the same name: compare() goes past step 3.
SameName == BothPresent /\ Get(field_original).name = Get(field_update).name

\* The findings of one category among those the last compare() appended.
Of(category) == {i \in DOMAIN Appended : Appended[i].category = category}

\* Same name, same proto_type, both type names present.
SameProtoType ==
    /\ SameName
    /\ Get(field_original).proto_type.value = Get(field_update).proto_type.value
    /\ Get(field_original).type_name # None
    /\ Get(field_update).type_name # None

OriginalTypeName == Get(Get(field_original).type_name).value

UpdateTypeName == Get(Get(field_update).type_name).value

\* The finding of a changed type name, as the test test_message_type_change reads it.
TypeNameChangeFinding ==
    [category |-> "FIELD_TYPE_CHANGE", change_type |-> "MAJOR",
     proto_file_name |-> Get(field_update).proto_file_name,
     source_code_line |-> Get(Get(field_update).type_name).source_code_line,
     message |-> <<"Type of an existing field '", Get(field_original).name,
                   "' is changed from '", OriginalTypeName, "' to '", UpdateTypeName, "'.">>]

----------------------------------------------------------------------------
(* C1 *)

AdditionFinding(f) ==
    [category |-> "FIELD_ADDITION", change_type |-> "MINOR",
     proto_file_name |-> f.proto_file_name, source_code_line |-> f.source_code_line,
     message |-> <<"A new field '", f.name, "' is added.">>]

RemovalFinding(f) ==
    [category |-> "FIELD_REMOVAL", change_type |-> "MAJOR",
     proto_file_name |-> f.proto_file_name, source_code_line |-> f.source_code_line,
     message |-> <<"An existing field '", f.name, "' is removed.">>]

\* C1: compare(None, F) appends exactly one finding, FIELD_ADDITION / MINOR with the
\* message and the location of F; compare(F, None) appends exactly one finding,
\* FIELD_REMOVAL / MAJOR with the message and the location of F; nothing else is
\* appended and nothing is raised.
C1_AdditionAndRemoval ==
    FieldDone =>
        /\ field_original = None =>
              Appended = <<AdditionFinding(Get(field_update))>> /\ raised = "none"
        /\ (field_original # None /\ field_update = None) =>
              Appended = <<RemovalFinding(Get(field_original))>> /\ raised = "none"

\* A field that is repeated, required and in a oneof was removed.
C1_Witness ==
    /\ FieldDone
    /\ field_update = None
    /\ field_original # None
    /\ Get(field_original).repeated.value
    /\ Get(field_original).required.value
    /\ Get(field_original).oneof
    /\ Len(Appended) = 1
    /\ Appended[1].category = "FIELD_REMOVAL"

----------------------------------------------------------------------------
(* C6 *)

\* C6: both fields present with different names: compare appends exactly one finding,
\* FIELD_NAME_CHANGE / MAJOR citing both names, and returns; no later check appends
\* a finding or raises, whatever else differs.
C6_NameChangeReturns ==
    (FieldDone /\ BothPresent /\ Get(field_original).name # Get(field_update).name) =>
        /\ raised = "none"
        /\ Appended =
            <<[category |-> "FIELD_NAME_CHANGE", change_type |-> "MAJOR",
               proto_file_name |-> Get(field_update).proto_file_name,
               source_code_line |-> Get(field_update).source_code_line,
               message |-> <<"Name of an existing field is changed from '",
                             Get(field_original).name, "' to '",
                             Get(field_update).name, "'.">>]>>

\* A renamed field whose repeated state, requiredness, type, oneof membership and
\* resource reference changed as well.
C6_Witness ==
    /\ FieldDone
    /\ BothPresent
    /\ Get(field_original).name # Get(field_update).name
    /\ Get(field_original).repeated.value # Get(field_update).repeated.value
    /\ ~Get(field_original).required.value /\ Get(field_update).required.value
    /\ Get(field_original).proto_type.value # Get(field_update).proto_type.value
    /\ Get(field_original).oneof # Get(field_update).oneof
    /\ Get(field_original).resource_reference # None
    /\ Get(field_update).resource_reference = None
    /\ Len(Appended) = 1

----------------------------------------------------------------------------
(* C7 *)

\* C7 as stated: a field that is both renamed and retyped yields a name-change and a
\* type-change finding in one compare pass.
C7_RenamedAndRetypedYieldsTwo ==
    (/\ FieldDone
     /\ BothPresent
     /\ Get(field_original).name # Get(field_update).name
     /\ Get(field_original).proto_type.value # Get(field_update).proto_type.value) =>
        Of("FIELD_NAME_CHANGE") # {} /\ Of("FIELD_TYPE_CHANGE") # {}

\* C7, amended: the accumulator does not deduplicate (what a call appends does not
\* depend on the findings already held) and one call may append several findings:
\* a same-named field whose repeated state and scalar type both changed yields a
\* repeated-change finding followed by a type-change finding, while a field that is
\* renamed and retyped yields the name-change finding alone.
C7_SeveralFindingsNoDedup ==
    (FieldDone /\ BothPresent) =>
        /\ Appended = compare(field_original, field_update, <<>>).findings
        /\ Get(field_original).name # Get(field_update).name =>
              Len(Appended) = 1 /\ Appended[1].category = "FIELD_NAME_CHANGE"
        /\ (/\ Get(field_original).name = Get(field_update).name
            /\ Get(field_original).repeated.value # Get(field_update).repeated.value
            /\ Get(field_original).proto_type.value # Get(field_update).proto_type.value) =>
              /\ Len(Appended) = 2
              /\ Appended[1].category = "FIELD_REPEATED_CHANGE"
              /\ Appended[2].category = "FIELD_TYPE_CHANGE"

\* The second of two equal calls appended the same two findings once more.
C7_Witness ==
    /\ FieldDone
    /\ SameName
    /\ Len(prior) = 2
    /\ Len(Appended) = 2
    /\ Appended = prior
    /\ Appended[1].category = "FIELD_REPEATED_CHANGE"
    /\ Appended[2].category = "FIELD_TYPE_CHANGE"

----------------------------------------------------------------------------
(* C2 *)

\* C2: with api versions v1 -> v2, the type-name change .p.v1.E -> .p.v2.E is a
\* genuine break and yields one FIELD_TYPE_CHANGE / MAJOR finding, while with
\* v1 -> v1b the change .p.v1.E -> .p.v1b.E yields none.
C2_MajorVersionChangeFlagged ==
    (/\ FieldDone
     /\ SameProtoType
     /\ Get(field_original).api_version = Some(V1)
     /\ OriginalTypeName = TypeName(<<"p">>, V1, <<"E">>)) =>
        /\ (/\ Get(field_update).api_version = Some(V2)
            /\ UpdateTypeName = TypeName(<<"p">>, V2, <<"E">>)) =>
              Appended = <<TypeNameChangeFinding>>
        /\ (/\ Get(field_update).api_version = Some(V1b)
            /\ UpdateTypeName = TypeName(<<"p">>, V1b, <<"E">>)) =>
              Appended = <<>>

----------------------------------------------------------------------------
(* C3 *)

\* The original type name with the original api version replaced by the updated one
\* equals the updated type name (both api versions being there to replace with).
ReplacedEquals(original_name, update_name) ==
    /\ Get(field_original).api_version # None
    /\ Get(field_update).api_version # None
    /\ Replace(original_name, Get(Get(field_original).api_version),
               Get(Get(field_update).api_version)) = update_name

\* C3: same name, equal proto_type, both type names present and different: no
\* FIELD_TYPE_CHANGE finding iff the original type name with the original api version
\* replaced by the updated one equals the updated type name; in every other case
\* (an original without api version included) exactly one FIELD_TYPE_CHANGE / MAJOR
\* finding citing both type names.
C3_TypeNameChange ==
    (FieldDone /\ SameProtoType /\ OriginalTypeName # UpdateTypeName) =>
        IF ReplacedEquals(OriginalTypeName, UpdateTypeName)
        THEN Of("FIELD_TYPE_CHANGE") = {}
        ELSE /\ Cardinality(Of("FIELD_TYPE_CHANGE")) = 1
             /\ \A i \in Of("FIELD_TYPE_CHANGE") : Appended[i] = TypeNameChangeFinding

\* C3 where the updated side has an api version whenever the original has one.
C3_WhereUpdateHasApiVersion ==
    (/\ FieldDone
     /\ SameProtoType
     /\ Get(field_original).api_version # None => Get(field_update).api_version # None)
        => C3_TypeNameChange

----------------------------------------------------------------------------
(* C4 *)

\* The segments of a dotted name: the pieces between the dots.
RECURSIVE SplitDots(_, _)
SplitDots(s, piece) ==
    IF s = <<>> THEN <<piece>>
    ELSE IF Head(s) = "." THEN <<piece>> \o SplitDots(Tail(s), <<>>)
    ELSE SplitDots(Tail(s), Append(piece, Head(s)))

Segments(s) == SplitDots(s, <<>>)

\* Two names that differ in exactly one segment, the version segment.
DifferInVersionSegmentOnly(a, b, version_a, version_b) ==
    /\ Len(Segments(a)) = Len(Segments(b))
    /\ \E k \in DOMAIN Segments(a) :
          /\ Segments(a)[k] = version_a
          /\ Segments(b)[k] = version_b
          /\ \A i \in DOMAIN Segments(a) \ {k} : Segments(a)[i] = Segments(b)[i]

\* C4: a type-name change is tolerated (no FIELD_TYPE_CHANGE finding) only when the
\* two names differ in nothing but the version segment; a difference anywhere else,
\* also one that is an occurrence of the original api version inside another segment
\* or inside the type's own name, yields FIELD_TYPE_CHANGE / MAJOR.
C4_SegmentExact ==
    (/\ FieldDone
     /\ SameProtoType
     /\ OriginalTypeName # UpdateTypeName
     /\ raised = "none"
     /\ Of("FIELD_TYPE_CHANGE") = {}) =>
        /\ Get(field_original).api_version # None
        /\ Get(field_update).api_version # None
        /\ DifferInVersionSegmentOnly(OriginalTypeName, UpdateTypeName,
                                      Get(Get(field_original).api_version),
                                      Get(Get(field_update).api_version))

----------------------------------------------------------------------------
(* C5 *)

BothMaps ==
    /\ SameProtoType
    /\ Get(field_original).is_map_type
    /\ Get(field_update).is_map_type

OriginalEntry == Get(Get(field_original).map_entry_type)

UpdateEntry == Get(Get(field_update).map_entry_type)

\* Equal, or version-tolerantly equivalent.
Equivalent(original_name, update_name) ==
    original_name = update_name \/ ReplacedEquals(original_name, update_name)

MapChangeFinding ==
    [category |-> "FIELD_TYPE_CHANGE", change_type |-> "MAJOR",
     proto_file_name |-> Get(field_update).proto_file_name,
     source_code_line |-> Get(Get(field_update).type_name).source_code_line,
     message |-> <<"Type of an existing field '", Get(field_original).name,
                   "' is changed from 'map<", OriginalEntry.key, ", ", OriginalEntry.value,
                   ">' to 'map<", UpdateEntry.key, ", ", UpdateEntry.value, ">'.">>]

\* C5: two same-named map fields with equal proto_type, whatever their type names
\* are: one FIELD_TYPE_CHANGE / MAJOR finding citing both map<K, V> forms when the
\* key types or the value types are neither equal nor version-tolerantly equivalent,
\* and no FIELD_TYPE_CHANGE finding otherwise.  Stated where both sides have an api
\* version, so that every replacement is defined, and where the two type names (of
\* the map entries) are themselves equal or version-tolerantly equivalent.
C5_MapTypes ==
    (/\ FieldDone
     /\ BothMaps
     /\ Get(field_original).api_version # None
     /\ Get(field_update).api_version # None
     /\ Equivalent(OriginalTypeName, UpdateTypeName)) =>
        IF /\ Equivalent(OriginalEntry.key, UpdateEntry.key)
           /\ Equivalent(OriginalEntry.value, UpdateEntry.value)
        THEN Of("FIELD_TYPE_CHANGE") = {}
        ELSE Appended = <<MapChangeFinding>>

\* C5 where, in addition, the two fields have the same type name.
C5_WhereTypeNamesEqual ==
    (FieldDone /\ BothMaps /\ OriginalTypeName = UpdateTypeName) => C5_MapTypes

----------------------------------------------------------------------------
(* C8 *)

OriginalReference == Get(Get(field_original).resource_reference)

UpdateReference == Get(Get(field_update).resource_reference)

\* The parent resources database `db` (optional) returns for a child type; an absent
\* database returns none.
ParentsIn(db, child) ==
    IF db = None THEN {} ELSE get_parent_resources_by_child_type(Get(db), child)

\* The referenced type is registered in the updated side's database: parent lookup of
\* child_type for a child-type reference, direct lookup of type otherwise.
RegisteredInUpdate ==
    IF UpdateReference.value.child_type # <<>>
    THEN ParentsIn(Get(field_update).resource_database, UpdateReference.value.child_type) # {}
    ELSE /\ Get(field_update).resource_database # None
         /\ get_resource_by_type(Get(Get(field_update).resource_database),
                                 UpdateReference.value.type) # {}

ReferenceIsAdded ==
    /\ SameName
    /\ Get(field_original).resource_reference = None
    /\ Get(field_update).resource_reference # None

\* C8: a resource reference is added: exactly one RESOURCE_REFERENCE_ADDITION finding,
\* MINOR when the referenced type is registered in the updated side's database and
\* MAJOR otherwise, for type references and child-type references alike.
C8_ReferenceAddition ==
    (FieldDone /\ ReferenceIsAdded) =>
        /\ Len(Appended) = 1
        /\ Appended[1].category = "RESOURCE_REFERENCE_ADDITION"
        /\ Appended[1].change_type = IF RegisteredInUpdate THEN "MINOR" ELSE "MAJOR"

\* C8 for the references that are not child-type references.
C8_WhereTypeReference ==
    (FieldDone /\ ReferenceIsAdded /\ UpdateReference.value.child_type = <<>>)
        => C8_ReferenceAddition

----------------------------------------------------------------------------
(* C9 *)

ReferenceIsRemoved ==
    /\ SameName
    /\ Get(field_original).resource_reference # None
    /\ Get(field_update).resource_reference = None

\* Exactly one of type and child_type is set.
WellFormed(reference) ==
    (reference.value.type # <<>>) # (reference.value.child_type # <<>>)

\* The updated side carries a message-level resource that is the same resource as
\* the removed reference.
SameMessageResource ==
    /\ Get(field_update).message_resource # None
    /\ LET message_type == Get(Get(field_update).message_resource).value.type IN
        \/ message_type = OriginalReference.value.type
        \/ /\ OriginalReference.value.child_type # <<>>
           /\ \E parent \in ParentsIn(Get(field_update).resource_database,
                                      OriginalReference.value.child_type) :
                 parent.value.type = message_type

\* C9: a (well-formed) resource reference is removed: exactly one
\* RESOURCE_REFERENCE_REMOVAL finding, MINOR when the updated side carries a
\* message-level resource that is the same resource, MAJOR otherwise.
C9_ReferenceRemoval ==
    (FieldDone /\ ReferenceIsRemoved /\ WellFormed(OriginalReference)) =>
        /\ Len(Appended) = 1
        /\ Appended[1].category = "RESOURCE_REFERENCE_REMOVAL"
        /\ Appended[1].change_type = IF SameMessageResource THEN "MINOR" ELSE "MAJOR"

\* C9 where the updated side has a resource database.
C9_WhereDatabasePresent ==
    (FieldDone /\ ReferenceIsRemoved /\ Get(field_update).resource_database # None)
        => C9_ReferenceRemoval

----------------------------------------------------------------------------
(* C10 *)

ReferenceIsFlipped ==
    /\ SameName
    /\ Get(field_original).resource_reference # None
    /\ Get(field_update).resource_reference # None
    /\ child_type(Get(field_original)) # child_type(Get(field_update))

\* The side that carries the child-type reference, and the other side's type.
ChildSide == IF child_type(Get(field_original)) THEN Get(field_original) ELSE Get(field_update)

FlippedChildType == Get(ChildSide.resource_reference).value.child_type

FlippedType ==
    IF child_type(Get(field_original)) THEN UpdateReference.value.type
    ELSE OriginalReference.value.type

\* C10: type <-> child_type: no RESOURCE_REFERENCE_CHANGE finding if the parents of
\* the child type, in the database of the side that carries the child-type reference,
\* include the other side's type; otherwise exactly one RESOURCE_REFERENCE_CHANGE /
\* MAJOR finding naming the child type and the type.
C10_ReferenceFlip ==
    (FieldDone /\ ReferenceIsFlipped) =>
        IF \E parent \in ParentsIn(ChildSide.resource_database, FlippedChildType) :
              parent.value.type = FlippedType
        THEN Of("RESOURCE_REFERENCE_CHANGE") = {}
        ELSE Appended =
              <<[category |-> "RESOURCE_REFERENCE_CHANGE", change_type |-> "MAJOR",
                 proto_file_name |-> Get(field_update).proto_file_name,
                 source_code_line |-> UpdateReference.source_code_line,
                 message |-> <<"The child_type '", FlippedChildType, "' and type '",
                               FlippedType, "' of resource reference option in field '",
                               Get(field_original).name,
                               "' cannot be resolved to the identical resource.">>]>>

\* C10 where the side that carries the child-type reference has a resource database.
C10_WhereDatabasePresent ==
    (FieldDone /\ ReferenceIsFlipped /\ ChildSide.resource_database # None)
        => C10_ReferenceFlip

----------------------------------------------------------------------------
(* C11 *)

\* An optional reference that is present and sets neither type nor child_type.
Malformed(reference) ==
    /\ reference # None
    /\ Get(reference).value.type = <<>>
    /\ Get(reference).value.child_type = <<>>

ResourceReferenceCategories ==
    {"RESOURCE_REFERENCE_ADDITION", "RESOURCE_REFERENCE_REMOVAL", "RESOURCE_REFERENCE_CHANGE"}

\* The resource-reference findings the last compare() appended.
ResourceReferenceFindings ==
    {i \in DOMAIN Appended : Appended[i].category \in ResourceReferenceCategories}

\* C11: a resource reference with neither type nor child_type, on either side and in
\* every path of the resolver (added, removed, present on both sides), makes compare()
\* raise the malformed-reference error and append no resource-reference finding.
C11_MalformedReferenceRaises ==
    (/\ FieldDone
     /\ SameName
     /\ \/ Malformed(Get(field_original).resource_reference)
        \/ Malformed(Get(field_update).resource_reference))
        => (raised = "TypeError" /\ ResourceReferenceFindings = {})

\* C11 in the one path where the code does raise: the malformed reference is removed
\* and the updated side has a message-level resource.
C11_WhereRemovedWithMessageResource ==
    (/\ FieldDone
     /\ SameName
     /\ Malformed(Get(field_original).resource_reference)
     /\ Get(field_update).resource_reference = None
     /\ Get(field_update).message_resource # None)
        => (raised = "TypeError" /\ ResourceReferenceFindings = {})

----------------------------------------------------------------------------
(* C12 *)

\* The severities of the findings of one category the last compare() appended.
Severities(category) == {Appended[i].change_type : i \in Of(category)}

\* The last compare() returned and appended one finding of the category, a MAJOR one.
OneMajor(category) ==
    /\ raised = "none"
    /\ Cardinality(Of(category)) = 1
    /\ Severities(category) = {"MAJOR"}

\* C12: an absent resource database on the side a path queries is a negative lookup
\* and never an error: compare() returns and classifies the change as if nothing were
\* registered, when a reference is added, when a child-type reference is removed while
\* the updated side has a message-level resource, and when type and child_type are
\* swapped in either direction.
C12_AbsentDatabaseIsNegativeLookup ==
    (FieldDone /\ SameName) =>
        /\ (/\ ReferenceIsAdded
            /\ WellFormed(UpdateReference)
            /\ Get(field_update).resource_database = None)
               => OneMajor("RESOURCE_REFERENCE_ADDITION")
        /\ (/\ ReferenceIsRemoved
            /\ WellFormed(OriginalReference)
            /\ OriginalReference.value.child_type # <<>>
            /\ Get(field_update).message_resource # None
            /\ Get(field_update).resource_database = None)
               => OneMajor("RESOURCE_REFERENCE_REMOVAL")
        /\ (/\ ReferenceIsFlipped
            /\ WellFormed(OriginalReference)
            /\ WellFormed(UpdateReference)
            /\ ChildSide.resource_database = None)
               => OneMajor("RESOURCE_REFERENCE_CHANGE")

\* C12 for the path that guards the absent database: a reference is added.
C12_WhereReferenceAdded ==
    (/\ FieldDone
     /\ ReferenceIsAdded
     /\ WellFormed(UpdateReference)
     /\ Get(field_update).resource_database = None)
        => OneMajor("RESOURCE_REFERENCE_ADDITION")

----------------------------------------------------------------------------
(* C13 *)

\* The file of the side a finding of the last compare() is expected in.
OriginalFile == Get(field_original).proto_file_name

UpdateFile == Get(field_update).proto_file_name

\* C13: every finding is located in the updated side's file, except the finding of a
\* pure removal (the updated field is absent), which is located in the original's; so
\* every finding appended while both fields are present, the resource-reference
\* findings included, carries the updated field's file name.
C13_UpdatedFileExceptPureRemoval ==
    FieldDone =>
        \A i \in DOMAIN Appended :
            Appended[i].proto_file_name =
                IF field_update = None THEN OriginalFile ELSE UpdateFile

\* C13 as the code has it: the finding of a removed resource reference is located in
\* the original side's file as well, next to the line of the removed annotation.
C13_UpdatedFileExceptRemovals ==
    FieldDone =>
        \A i \in DOMAIN Appended :
            Appended[i].proto_file_name =
                IF field_update = None \/ Appended[i].category = "RESOURCE_REFERENCE_REMOVAL"
                THEN OriginalFile ELSE UpdateFile

\* A reference is removed from a field whose repeated state changes in the same pass.
C13_Witness ==
    /\ FieldDone
    /\ ReferenceIsRemoved
    /\ OriginalFile # UpdateFile
    /\ Of("RESOURCE_REFERENCE_REMOVAL") # {}
    /\ Of("FIELD_REPEATED_CHANGE") # {}

----------------------------------------------------------------------------
(* C14 *)

RepeatedDiffers == Get(field_original).repeated.value # Get(field_update).repeated.value

\* The name of a field's label, as the findings of the test suite spell it.
LabelName(f) ==
    IF f.repeated.value
    THEN <<"L", "A", "B", "E", "L", "_", "R", "E", "P", "E", "A", "T", "E", "D">>
    ELSE IF f.required.value
    THEN <<"L", "A", "B", "E", "L", "_", "R", "E", "Q", "U", "I", "R", "E", "D">>
    ELSE <<"L", "A", "B", "E", "L", "_", "O", "P", "T", "I", "O", "N", "A", "L">>

\* C14: same-named fields whose repeated state differs get a FIELD_REPEATED_CHANGE /
\* MAJOR finding whose message names both labels ("Repeated state of an existing field
\* '<name>' is changed from 'LABEL_REPEATED' to 'LABEL_OPTIONAL'."); fields whose
\* repeated state is equal get no such finding.
C14_RepeatedChangeNamesLabels ==
    (FieldDone /\ SameName) =>
        IF RepeatedDiffers
        THEN \E i \in Of("FIELD_REPEATED_CHANGE") :
                /\ Appended[i].change_type = "MAJOR"
                /\ Appended[i].message =
                       <<"Repeated state of an existing field '", Get(field_original).name,
                         "' is changed from '", LabelName(Get(field_original)),
                         "' to '", LabelName(Get(field_update)), "'.">>
        ELSE Of("FIELD_REPEATED_CHANGE") = {}

\* C14 with the message the code writes, which names no label.
C14_WhereMessageHasNoLabels ==
    (FieldDone /\ SameName) =>
        IF RepeatedDiffers
        THEN /\ Cardinality(Of("FIELD_REPEATED_CHANGE")) = 1
             /\ \A i \in Of("FIELD_REPEATED_CHANGE") :
                    /\ Appended[i].change_type = "MAJOR"
                    /\ Appended[i].message =
                           <<"Repeated state of an existing field '",
                             Get(field_original).name, "' is changed.">>
        ELSE Of("FIELD_REPEATED_CHANGE") = {}

----------------------------------------------------------------------------
(* C15 *)

ProtoTypeDiffers == Get(field_original).proto_type.value # Get(field_update).proto_type.value

\* Label, oneof membership, proto3 optional state and resource reference are equal.
OtherAttributesEqual ==
    /\ Get(field_original).repeated.value = Get(field_update).repeated.value
    /\ Get(field_original).required.value = Get(field_update).required.value
    /\ Get(field_original).oneof = Get(field_update).oneof
    /\ Get(field_original).proto3_optional = Get(field_update).proto3_optional
    /\ Get(field_original).resource_reference = None
    /\ Get(field_update).resource_reference = None

\* The finding of step 5 for a changed proto_type.
IsProtoTypeChangeFinding(finding) ==
    /\ finding.category = "FIELD_TYPE_CHANGE"
    /\ finding.change_type = "MAJOR"
    /\ finding.message =
           <<"Type of an existing field '", Get(field_original).name,
             "' is changed from '", Get(field_original).proto_type.value,
             "' to '", Get(field_update).proto_type.value, "'.">>

\* C15: same-named fields whose proto_type differs get the FIELD_TYPE_CHANGE / MAJOR
\* finding "Type of an existing field '<name>' is changed from '<original proto_type>'
\* to '<updated proto_type>'." and, all other attributes being equal, nothing else;
\* the type-name and map branches are not evaluated then, so one compare() appends at
\* most one FIELD_TYPE_CHANGE finding.
C15_ProtoTypeChange ==
    (FieldDone /\ SameName) =>
        /\ Cardinality(Of("FIELD_TYPE_CHANGE")) <= 1
        /\ ProtoTypeDiffers =>
              /\ \E i \in Of("FIELD_TYPE_CHANGE") : IsProtoTypeChangeFinding(Appended[i])
              /\ OtherAttributesEqual => (raised = "none" /\ Len(Appended) = 1)

\* The proto_type differs and so do the two type names.
C15_Witness ==
    /\ FieldDone
    /\ SameName
    /\ ProtoTypeDiffers
    /\ Get(field_original).type_name # None
    /\ Get(field_update).type_name # None
    /\ Get(Get(field_original).type_name).value # Get(Get(field_update).type_name).value
    /\ Len(Appended) = 1
    /\ IsProtoTypeChangeFinding(Appended[1])

----------------------------------------------------------------------------
(* C16 *)

\* The last compare() appended exactly one finding of the category, MAJOR, with the
\* message made of the field's name between the two given parts.
OneofFinding(category, before, after) ==
    /\ Cardinality(Of(category)) = 1
    /\ \A i \in Of(category) :
          /\ Appended[i].change_type = "MAJOR"
          /\ Appended[i].message = <<before, Get(field_original).name, after>>

\* C16: same-named fields get a oneof finding exactly when the membership changes:
\* FIELD_ONEOF_REMOVAL / MAJOR "An existing field '<name>' is moved out of One-of."
\* when the original is in a oneof and the update is not, FIELD_ONEOF_ADDITION / MAJOR
\* when it is the other way round, neither when the membership is unchanged.
C16_OneofMembership ==
    (FieldDone /\ SameName) =>
        LET o == Get(field_original)
            u == Get(field_update)
        IN  /\ (o.oneof /\ ~u.oneof) =>
                  /\ OneofFinding("FIELD_ONEOF_REMOVAL",
                                  "An existing field '", "' is moved out of One-of.")
                  /\ Of("FIELD_ONEOF_ADDITION") = {}
            /\ (~o.oneof /\ u.oneof) =>
                  /\ OneofFinding("FIELD_ONEOF_ADDITION",
                                  "An existing field '", "' is moved into One-of.")
                  /\ Of("FIELD_ONEOF_REMOVAL") = {}
            /\ (o.oneof = u.oneof) =>
                  /\ Of("FIELD_ONEOF_REMOVAL") = {}
                  /\ Of("FIELD_ONEOF_ADDITION") = {}

\* C16 where step 5 of compare() did not raise on the two type names.
C16_WhereTypeCheckReturns ==
    (FieldDone /\ SameName /\ raised # "TypeError") => C16_OneofMembership

----------------------------------------------------------------------------
(* C17 *)

EnumValueDone == pc = "done" /\ kind = "enum"

\* The last compare() appended one finding: this category and severity, at the
\* location of the given enum value.
OneFindingAt(category, change_type, enum_value) ==
    /\ Len(Appended) = 1
    /\ Appended[1].category = category
    /\ Appended[1].change_type = change_type
    /\ Appended[1].proto_file_name = enum_value.proto_file_name
    /\ Appended[1].source_code_line = enum_value.source_code_line

\* C17: EnumValueComparator.compare appends at most one finding: ENUM_VALUE_ADDITION /
\* MINOR at the updated location when the original is absent, ENUM_VALUE_REMOVAL /
\* MAJOR at the original location when the update is absent, ENUM_VALUE_NAME_CHANGE /
\* MAJOR at the updated location when both are present with different names, and
\* nothing when both are present with equal names.
C17_EnumValueFindings ==
    EnumValueDone =>
        /\ raised = "none"
        /\ IF enum_value_original = None
           THEN OneFindingAt("ENUM_VALUE_ADDITION", "MINOR", Get(enum_value_update))
           ELSE IF enum_value_update = None
           THEN OneFindingAt("ENUM_VALUE_REMOVAL", "MAJOR", Get(enum_value_original))
           ELSE IF Get(enum_value_original).name # Get(enum_value_update).name
           THEN OneFindingAt("ENUM_VALUE_NAME_CHANGE", "MAJOR", Get(enum_value_update))
           ELSE Appended = <<>>

\* An enum value is renamed, on an accumulator that holds findings already.
C17_Witness ==
    /\ EnumValueDone
    /\ prior # <<>>
    /\ enum_value_original # None
    /\ enum_value_update # None
    /\ Get(enum_value_original).name # Get(enum_value_update).name
    /\ Len(Appended) = 1
    /\ Appended[1].category = "ENUM_VALUE_NAME_CHANGE"
    /\ Appended[1].proto_file_name = "update.proto"

----------------------------------------------------------------------------
(* C19 *)

\* The step is a compare() call of either comparator.
CompareStep == pc = "ready" /\ pc' = "done"

\* C19: over any sequence of FieldComparator and EnumValueComparator calls on one
\* accumulator every call only appends: the findings held before remain, unchanged,
\* the prefix of the accumulator, also when the call raises; and no call modifies
\* the original or the updated view, which hold the message-level resource and the
\* resource databases.
C19_AppendOnly ==
    [][/\ Len(finding_container') >= Len(finding_container)
       /\ SubSeq(finding_container', 1, Len(finding_container)) = finding_container
       /\ CompareStep =>
             /\ field_original' = field_original
             /\ field_update' = field_update
             /\ enum_value_original' = enum_value_original
             /\ enum_value_update' = enum_value_update]_vars

\* A call that raised after it had appended a finding to an accumulator that held
\* findings already.
C19_Witness ==
    /\ FieldDone
    /\ raised # "none"
    /\ prior # <<>>
    /\ Appended # <<>>
    /\ SubSeq(finding_container, 1, Len(prior)) = prior

----------------------------------------------------------------------------
(* C20 *)

\* Both fields carry a well-formed reference of the same kind: both type or both
\* child_type.
ReferenceIsSameKind ==
    /\ SameName
    /\ Get(field_original).resource_reference # None
    /\ Get(field_update).resource_reference # None
    /\ WellFormed(OriginalReference)
    /\ WellFormed(UpdateReference)
    /\ (OriginalReference.value.child_type # <<>>) = (UpdateReference.value.child_type # <<>>)

\* The one string a well-formed reference sets.
ReferencedType(reference) ==
    IF reference.value.type # <<>> THEN reference.value.type ELSE reference.value.child_type

\* C20: both fields carry a reference of the same kind: the two type strings are
\* compared directly, whatever the resource databases hold and whether they are there
\* at all: exactly one RESOURCE_REFERENCE_CHANGE / MAJOR finding that cites both
\* strings when they differ, no such finding when they are equal.
C20_SameKindCompared ==
    (FieldDone /\ ReferenceIsSameKind) =>
        IF ReferencedType(OriginalReference) # ReferencedType(UpdateReference)
        THEN /\ Cardinality(Of("RESOURCE_REFERENCE_CHANGE")) = 1
             /\ \A i \in Of("RESOURCE_REFERENCE_CHANGE") :
                   /\ Appended[i].change_type = "MAJOR"
                   /\ Appended[i].message =
                          <<"The type of resource reference option of the field '",
                            Get(field_original).name, "' is changed from '",
                            ReferencedType(OriginalReference), "' to '",
                            ReferencedType(UpdateReference), "'.">>
        ELSE Of("RESOURCE_REFERENCE_CHANGE") = {}

\* C20 where step 5 of compare() did not raise on the two type names.
C20_WhereTypeCheckReturns ==
    (FieldDone /\ ReferenceIsSameKind /\ raised # "TypeError") => C20_SameKindCompared

====
